---- MODULE Spec2Model ----
(***************************************************************************)
(* Reference-audio pipeline of the voice-cloning backend (app/training.py, *)
(* app/api.py, app/tts.py).                                                *)
(*                                                                         *)
(* The process is one asyncio event loop.  A coroutine runs until it       *)
(* awaits; upload_audio awaits once (file.read()), delayed_train awaits    *)
(* once (asyncio.sleep) and SimpleTrainer.train never awaits.  The model   *)
(* keeps the position of the running pipeline in pc and lets a handler     *)
(* step only while no coroutine occupies the loop (pc = "idle").  An       *)
(* answer a handler returns is held in response until it is sent; nothing  *)
(* else steps in between, so response is read against the state it was     *)
(* computed from.                                                          *)
(*                                                                         *)
(* Path.write_text and AudioSegment.export open their target for writing,  *)
(* which empties it, and then write: each is two steps of the run, and     *)
(* between the two the file on disk is incomplete.  statusFile and         *)
(* reference hold the bytes handed to the write from its first step on;    *)
(* pc tells whether they have all reached the file.                        *)
(*                                                                         *)
(* PCM audio is a sequence of segments [src, from, to]: the samples of     *)
(* upload body src between the millisecond offsets from and to.  Lengths   *)
(* are in milliseconds as pydub's len() reports them.                      *)
(***************************************************************************)
EXTENDS Integers, Sequences, FiniteSets, Bags

VARIABLES
    now,          \* wall clock, in seconds (datetime.now(), st_mtime)
    audioDir,     \* settings.AUDIO_DIR: the *.wav files, in directory order
    reference,    \* MODEL_DIR/reference.wav: <<>> when absent, else <<pcm>>
                  \* (still being written while pc = "export")
    statusFile,   \* STATUS_FILE: <<>> when absent, else <<[parses, data]>>
                  \* (still being written while pc is a "write_..." position)
    pending,      \* upload_audio calls suspended at "await file.read()"
    tasks,        \* delayed_train tasks suspended at asyncio.sleep(0.5)
    pc,           \* position of the pipeline run occupying the event loop
    audio_files,  \* concatenate_audio's sorted listing, <<>> outside a run
    sameDirRuns,  \* successful runs since the directory last changed, up to 2
    raised,       \* TRUE when the last finished run propagated an exception
    response,     \* the last answer a handler gave
    nUploads,     \* upload_audio calls begun
    nStored       \* upload_audio calls that answered "success"

vars == <<now, audioDir, reference, statusFile, pending, tasks, pc,
          audio_files, sameDirRuns, raised, response, nUploads, nStored>>

----------------------------------------------------------------------------
(* Bounds of the model *)

MaxTime == 1
MaxUploads == 2
MaxPad == 1

(* Program constants *)

max_duration_ms == 20000
MaxTextLen == 500
NoTime == -1

NoPath == "null"
ReferencePath == "data/model/reference.wav"

----------------------------------------------------------------------------
(* Upload bodies.  Body 0 is a byte string no decoder accepts; body c > 0  *)
(* decodes to ClipMs(c) milliseconds of audio.                             *)

Bodies == 0..2

ClipMs(c) == 17000 * c - 9000

Decoded(c) == << [src |-> c, from |-> 0, to |-> ClipMs(c)] >>

----------------------------------------------------------------------------
(* pydub.AudioSegment as the pipeline uses it *)

RECURSIVE Duration(_)
Duration(pcm) ==
    IF pcm = <<>> THEN 0
    ELSE (Head(pcm).to - Head(pcm).from) + Duration(Tail(pcm))

(* the buffer starts from the reference sample of the run before *)
Leftover == IF reference = <<>> THEN <<>> ELSE reference[1]

(* AudioSegment.empty() *)
Empty == <<>>

Append2(combined, audio) == combined \o audio

RECURSIVE DropMs(_, _)
DropMs(pcm, n) ==
    IF n = 0 \/ pcm = <<>> THEN pcm
    ELSE LET h == Head(pcm)
             d == h.to - h.from
         IN  IF d <= n THEN DropMs(Tail(pcm), n - d)
             ELSE << [h EXCEPT !.from = h.from + n] >> \o Tail(pcm)

RECURSIVE TakeMs(_, _)
TakeMs(pcm, n) ==
    IF n = 0 \/ pcm = <<>> THEN <<>>
    ELSE LET h == Head(pcm)
             d == h.to - h.from
         IN  IF d <= n THEN << h >> \o TakeMs(Tail(pcm), n - d)
             ELSE << [h EXCEPT !.to = h.from + n] >>

(* combined[:ms] where the code has combined[-ms:] *)
FirstMs(pcm, ms) == TakeMs(pcm, ms)

(* combined[-ms:] *)
LastMs(pcm, ms) == DropMs(pcm, Duration(pcm) - ms)

Truncate(combined) ==
    IF Duration(combined) > max_duration_ms
    THEN LastMs(combined, max_duration_ms)
    ELSE combined

----------------------------------------------------------------------------
(* Listing of the audio directory *)

Glob(dir) == dir

RECURSIVE InsertByMtime(_, _)
InsertByMtime(sorted, f) ==
    IF sorted = <<>> THEN << f >>
    ELSE IF f.mtime < Head(sorted).mtime THEN << f >> \o sorted
    ELSE << Head(sorted) >> \o InsertByMtime(Tail(sorted), f)

RECURSIVE SortByMtime(_)
SortByMtime(files) ==
    IF files = <<>> THEN <<>>
    ELSE InsertByMtime(SortByMtime(SubSeq(files, 1, Len(files) - 1)),
                       files[Len(files)])

FromWavOk(f) == f.ok

(* the loop without its try/except: the first failure ends it *)
RECURSIVE ConcatAllBreak(_, _)
ConcatAllBreak(combined, files) ==
    IF files = <<>> THEN combined
    ELSE IF FromWavOk(Head(files))
    THEN ConcatAllBreak(Append2(combined, Head(files).pcm), Tail(files))
    ELSE combined

(* the loop of concatenate_audio over two or more files *)
RECURSIVE ConcatAll(_, _)
ConcatAll(combined, files) ==
    IF files = <<>> THEN combined
    ELSE ConcatAll(IF FromWavOk(Head(files))
                   THEN Append2(combined, Head(files).pcm)
                   ELSE combined,
                   Tail(files))

(* concatenate_audio whose single-file branch leaves combined unassigned *)
ConcatenateAudioNoAssign(files) ==
    IF files = <<>> THEN <<>>
    ELSE IF Len(files) = 1
    THEN IF FromWavOk(files[1]) THEN << Truncate(Empty) >> ELSE <<>>
    ELSE << Truncate(ConcatAll(Empty, files)) >>

(* concatenate_audio without the "if not audio_files" check *)
ConcatenateAudioNoCheck(files) ==
    IF Len(files) = 1
    THEN IF FromWavOk(files[1]) THEN << Truncate(files[1].pcm) >> ELSE <<>>
    ELSE << Truncate(ConcatAll(Empty, files)) >>

(* concatenate_audio: <<>> when it raises, else <<pcm exported>> *)
ConcatenateAudio(files) ==
    IF files = <<>> THEN <<>>
    ELSE IF Len(files) = 1
    THEN IF FromWavOk(files[1]) THEN << Truncate(files[1].pcm) >> ELSE <<>>
    ELSE << Truncate(ConcatAll(Empty, files)) >>

----------------------------------------------------------------------------
(* Status store *)

(* status_data that names the model path in a "ready" record only *)
StatusDataReadyOnly(status, audio_count, t, ref) ==
    [status |-> status,
     audio_count |-> audio_count,
     last_trained |-> t,
     model_path |-> IF status = "ready" /\ ref # <<>> THEN ReferencePath
                    ELSE NoPath]

StatusData(status, audio_count, t, ref) ==
    [status |-> status,
     audio_count |-> audio_count,
     last_trained |-> t,
     model_path |-> IF ref # <<>> THEN ReferencePath ELSE NoPath]

UpdateStatus(status, audio_count, t, ref) ==
    << [parses |-> TRUE, data |-> StatusData(status, audio_count, t, ref)] >>

(* the default status with a constant count *)
DefaultStatusZero(dir) ==
    [status |-> "idle",
     audio_count |-> 0,
     last_trained |-> NoTime,
     model_path |-> NoPath]

(* the dict get_status returns when no status file exists *)
DefaultStatus(dir) ==
    [status |-> "idle",
     audio_count |-> Len(Glob(dir)),
     last_trained |-> NoTime,
     model_path |-> NoPath]

(* get_status that takes a file json.loads rejects for an absent one *)
TrainerGetStatusFallback(file, dir) ==
    IF file = <<>> \/ ~file[1].parses THEN << DefaultStatus(dir) >>
    ELSE << file[1].data >>

(* SimpleTrainer.get_status: <<>> when json.loads raises, else <<dict>> *)
TrainerGetStatus(file, dir) ==
    IF file = <<>> THEN << DefaultStatus(dir) >>
    ELSE IF file[1].parses THEN << file[1].data >>
    ELSE <<>>

Garbage == [parses |-> FALSE, data |-> DefaultStatus(<<>>)]

(* the positions of a run inside Path.write_text of update_status *)
StatusTorn(at) == at \in {"write_training", "write_ready", "write_error"}

(* what status_file.read_text() finds while the run is at position at *)
StatusOnDisk(file, at) == IF StatusTorn(at) THEN << Garbage >> ELSE file

(* what a reader of reference.wav finds while the run is at position at *)
ReadReference(ref, at) ==
    IF ref = <<>> THEN "missing"
    ELSE IF at = "export" THEN "torn"
    ELSE "whole"

----------------------------------------------------------------------------
(* The event loop *)

(* combined.export awaited on a worker thread *)
LoopFreeExportAwaited(at) == at \in {"idle", "export"}

(* status_file.write_text awaited on a worker thread *)
LoopFreeWriteAwaited(at) == at = "idle" \/ StatusTorn(at)

(* train yielding to the loop between any two of its statements *)
LoopFreeAlways(at) == TRUE

(* A handler or task gets the loop when the coroutine holding it awaits   *)
(* or ends: train holds it from its first statement to its last.          *)
LoopFree(at) == at = "idle"

----------------------------------------------------------------------------
(* Request texts: lead and trail count the whitespace characters str.strip *)
(* removes, core is the length of what remains between them.               *)

Text(lead, core, trail) == [lead |-> lead, core |-> core, trail |-> trail]

Texts ==
    { Text(l, c, t) : l \in 0..MaxPad, t \in 0..MaxPad,
                      c \in {0, 1, MaxTextLen - 1, MaxTextLen, MaxTextLen + 1} }
    \ { Text(l, 0, t) : l \in 1..MaxPad, t \in 0..MaxPad }

StrLen(text) == text.lead + text.core + text.trail

Strip(text) == Text(0, text.core, 0)

NoResponse == [req |-> "none", code |-> 0]

(* the last answer has gone out to its client *)
Answered == response = NoResponse

----------------------------------------------------------------------------
Init ==
    /\ now = 0
    /\ audioDir = <<>>
    /\ reference = <<>>
    /\ statusFile = <<>>
    /\ pending = EmptyBag
    /\ tasks = 0
    /\ pc = "idle"
    /\ audio_files = <<>>
    /\ sameDirRuns = 0
    /\ raised = FALSE
    /\ response = NoResponse
    /\ nUploads = 0
    /\ nStored = 0

(* The clock advances. *)
Tick ==
    /\ Answered
    /\ now < MaxTime
    /\ now' = now + 1
    /\ UNCHANGED <<audioDir, reference, statusFile, pending, tasks, pc,
                   audio_files, sameDirRuns, raised, response, nUploads,
                   nStored>>

----------------------------------------------------------------------------
(* POST /upload *)

FileNamed(dir, name) == { i \in 1..Len(dir) : dir[i].name = name }

InsertAt(dir, pos, f) ==
    SubSeq(dir, 1, pos - 1) \o << f >> \o SubSeq(dir, pos, Len(dir))

(* audio.export(wav_filepath): an existing file of that name is rewritten  *)
(* in place, a new one takes the directory slot pos the filesystem gives.  *)
ExportClip(dir, pos, name, t, body) ==
    LET f == [name |-> name, mtime |-> t, ok |-> TRUE, pcm |-> Decoded(body)]
    IN  IF FileNamed(dir, name) # {}
        THEN [i \in 1..Len(dir) |-> IF dir[i].name = name THEN f ELSE dir[i]]
        ELSE InsertAt(dir, pos, f)

(* the task is never created *)
ScheduleNone(sleeping) == sleeping

(* asyncio.create_task(delayed_train()) *)
Schedule(sleeping) == sleeping + 1

(* upload_audio up to its suspension at "await file.read()" *)
UploadBegin(body) ==
    /\ Answered
    /\ LoopFree(pc)
    /\ nUploads < MaxUploads
    /\ nUploads' = nUploads + 1
    /\ pending' = pending (+) SetToBag({ [timestamp |-> now, body |-> body] })
    /\ UNCHANGED <<now, audioDir, reference, statusFile, tasks, pc,
                   audio_files, sameDirRuns, raised, response, nStored>>

(* a decoder that takes any bytes *)
FromFileOkAlways(body) == TRUE

(* AudioSegment.from_file(tmp_path, format=input_format) returns *)
FromFileOk(body) == body # 0

(* upload_audio from the resumption to the response *)
UploadFinish(u, pos) ==
    /\ Answered
    /\ LoopFree(pc)
    /\ BagIn(u, pending)
    /\ pos \in 1..(Len(audioDir) + 1)
    /\ pending' = pending (-) SetToBag({u})
    /\ IF ~FromFileOk(u.body)
       THEN /\ response' = [req |-> "upload", code |-> 500]
            /\ UNCHANGED <<audioDir, tasks, nStored, sameDirRuns>>
       ELSE /\ audioDir' = ExportClip(audioDir, pos, u.timestamp, now, u.body)
            /\ sameDirRuns' = 0
            /\ tasks' = Schedule(tasks)
            /\ nStored' = nStored + 1
            /\ response' = [req |-> "upload", code |-> 200,
                            status |-> "success",
                            audio_count |-> Len(Glob(audioDir'))]
    /\ UNCHANGED <<now, reference, statusFile, pc, audio_files, raised,
                   nUploads>>

----------------------------------------------------------------------------
(* SimpleTrainer.train *)

(* entry of train announcing "ready" before the sample is written *)
TrainEnterReady ==
    /\ statusFile' = UpdateStatus("ready", Len(Glob(audioDir)), now, reference)
    /\ pc' = "write_training"

(* entry of train: update_status("training", ...) up to the opening of   *)
(* the status file by write_text                                           *)
TrainEnter ==
    /\ statusFile' = UpdateStatus("training", Len(Glob(audioDir)), now,
                                  reference)
    /\ pc' = "write_training"

(* a delayed_train task wakes from its sleep and awaits train() *)
DelayedTrain ==
    /\ Answered
    /\ LoopFree(pc)
    /\ tasks > 0
    /\ tasks' = tasks - 1
    /\ TrainEnter
    /\ UNCHANGED <<now, audioDir, reference, pending, audio_files,
                   sameDirRuns, raised, response, nUploads, nStored>>

(* train() awaited by a caller other than the upload handler *)
TrainCall ==
    /\ Answered
    /\ LoopFree(pc)
    /\ TrainEnter
    /\ UNCHANGED <<now, audioDir, reference, pending, tasks, audio_files,
                   sameDirRuns, raised, response, nUploads, nStored>>

(* write_text of the "training" record returns *)
TrainingWritten ==
    /\ Answered
    /\ pc = "write_training"
    /\ pc' = "concat"
    /\ UNCHANGED <<now, audioDir, reference, statusFile, pending, tasks,
                   audio_files, sameDirRuns, raised, response, nUploads,
                   nStored>>

(* concatenate_audio that removes the old sample when it raises *)
ConcatenateUnlinks ==
    /\ Answered
    /\ pc = "concat"
    /\ audio_files' = SortByMtime(Glob(audioDir))
    /\ LET out == ConcatenateAudio(audio_files')
       IN  IF out = <<>>
           THEN /\ pc' = "except"
                /\ reference' = <<>>
                /\ UNCHANGED sameDirRuns
           ELSE /\ pc' = "export"
                /\ reference' = out
                /\ sameDirRuns' = IF sameDirRuns = 0 THEN 1 ELSE 2
    /\ UNCHANGED <<now, audioDir, statusFile, pending, tasks, raised,
                   response, nUploads, nStored>>

(* self.concatenate_audio() inside train, up to the opening of             *)
(* reference.wav by combined.export, or to the exception it raises         *)
Concatenate ==
    /\ Answered
    /\ pc = "concat"
    /\ audio_files' = SortByMtime(Glob(audioDir))
    /\ LET out == ConcatenateAudio(audio_files')
       IN  IF out = <<>>
           THEN /\ pc' = "except"
                /\ UNCHANGED <<reference, sameDirRuns>>
           ELSE /\ pc' = "export"
                /\ reference' = out
                /\ sameDirRuns' = IF sameDirRuns = 0 THEN 1 ELSE 2
    /\ UNCHANGED <<now, audioDir, statusFile, pending, tasks, raised,
                   response, nUploads, nStored>>

(* combined.export returns, and concatenate_audio with it *)
Exported ==
    /\ Answered
    /\ pc = "export"
    /\ pc' = "ready"
    /\ UNCHANGED <<now, audioDir, reference, statusFile, pending, tasks,
                   audio_files, sameDirRuns, raised, response, nUploads,
                   nStored>>

(* update_status("ready", ...) up to the opening of the status file *)
TrainReady ==
    /\ Answered
    /\ pc = "ready"
    /\ statusFile' = UpdateStatus("ready", Len(Glob(audioDir)), now, reference)
    /\ pc' = "write_ready"
    /\ UNCHANGED <<now, audioDir, reference, pending, tasks, audio_files,
                   sameDirRuns, raised, response, nUploads, nStored>>

(* write_text of the "ready" record returns and train with it *)
ReadyWritten ==
    /\ Answered
    /\ pc = "write_ready"
    /\ raised' = FALSE
    /\ pc' = "idle"
    /\ audio_files' = <<>>
    /\ UNCHANGED <<now, audioDir, reference, statusFile, pending, tasks,
                   sameDirRuns, response, nUploads, nStored>>

(* the except branch without its update_status call *)
TrainErrorSilent ==
    /\ Answered
    /\ pc = "except"
    /\ pc' = "write_error"
    /\ UNCHANGED <<now, audioDir, reference, statusFile, pending, tasks,
                   audio_files, sameDirRuns, raised, response, nUploads,
                   nStored>>

(* the except branch: update_status("error", ...) up to the opening of    *)
(* the status file                                                         *)
TrainError ==
    /\ Answered
    /\ pc = "except"
    /\ statusFile' = UpdateStatus("error", Len(Glob(audioDir)), now, reference)
    /\ pc' = "write_error"
    /\ UNCHANGED <<now, audioDir, reference, pending, tasks, audio_files,
                   sameDirRuns, raised, response, nUploads, nStored>>

(* write_text of the "error" record returns and train re-raises *)
ErrorWritten ==
    /\ Answered
    /\ pc = "write_error"
    /\ raised' = TRUE
    /\ pc' = "idle"
    /\ audio_files' = <<>>
    /\ UNCHANGED <<now, audioDir, reference, statusFile, pending, tasks,
                   sameDirRuns, response, nUploads, nStored>>

----------------------------------------------------------------------------
(* GET /status *)

GetStatus ==
    /\ Answered
    /\ LoopFree(pc)
    /\ LET status == TrainerGetStatus(StatusOnDisk(statusFile, pc), audioDir)
       IN  response' =
             IF status = <<>>
             THEN [req |-> "status", code |-> 500]
             ELSE [req |-> "status", code |-> 200,
                   status |-> status[1].status,
                   audio_count |-> status[1].audio_count,
                   last_trained |-> status[1].last_trained]
    /\ UNCHANGED <<now, audioDir, reference, statusFile, pending, tasks, pc,
                   audio_files, sameDirRuns, raised, nUploads, nStored>>

----------------------------------------------------------------------------
(* POST /synthesize *)

(* the checks without the one of the reference file *)
PreconditionTextOnly(ref, text) ==
    IF StrLen(text) = 0 \/ StrLen(Strip(text)) = 0 THEN 400
    ELSE IF StrLen(text) > MaxTextLen THEN 400
    ELSE 0

(* the checks with ">=" for ">" in the length test *)
PreconditionOffByOne(ref, text) ==
    IF ref = <<>> THEN 400
    ELSE IF StrLen(text) = 0 \/ StrLen(Strip(text)) = 0 THEN 400
    ELSE IF StrLen(text) >= MaxTextLen THEN 400
    ELSE 0

(* the checks of synthesize that precede tts_service.generate: 0 when the  *)
(* request passes them, else the status code of the HTTPException raised   *)
Precondition(ref, text) ==
    IF ref = <<>> THEN 400
    ELSE IF StrLen(text) = 0 \/ StrLen(Strip(text)) = 0 THEN 400
    ELSE IF StrLen(text) > MaxTextLen THEN 400
    ELSE 0

(* generated: whether tts_service.generate returned a file or raised;     *)
(* read: what generate found in reference.wav                              *)
Synthesize(text, generated) ==
    /\ Answered
    /\ LoopFree(pc)
    /\ LET code == Precondition(reference, text)
       IN  response' =
             IF code # 0
             THEN [req |-> "synthesize", code |-> code, text |-> text,
                   adapter |-> FALSE, read |-> "unread"]
             ELSE [req |-> "synthesize",
                   code |-> IF generated THEN 200 ELSE 500,
                   text |-> text, adapter |-> TRUE,
                   read |-> ReadReference(reference, pc)]
    /\ UNCHANGED <<now, audioDir, reference, statusFile, pending, tasks, pc,
                   audio_files, sameDirRuns, raised, nUploads, nStored>>

----------------------------------------------------------------------------
(* The files are ordinary files of the host: something outside the process *)
(* can leave a clip that AudioSegment.from_wav rejects, or a status file   *)
(* that json.loads rejects.                                                *)

ClipDamaged(i) ==
    /\ Answered
    /\ i \in 1..Len(audioDir)
    /\ audioDir[i].ok
    /\ audioDir' = [audioDir EXCEPT ![i].ok = FALSE]
    /\ sameDirRuns' = 0
    /\ UNCHANGED <<now, reference, statusFile, pending, tasks, pc,
                   audio_files, raised, response, nUploads, nStored>>

StatusDamaged ==
    /\ Answered
    /\ statusFile # <<>>
    /\ StatusOnDisk(statusFile, pc)[1].parses
    /\ statusFile' = << Garbage >>
    /\ UNCHANGED <<now, audioDir, reference, pending, tasks, pc, audio_files,
                   sameDirRuns, raised, response, nUploads, nStored>>

----------------------------------------------------------------------------
(* The framework sends the handler's answer to the client. *)
Respond ==
    /\ response # NoResponse
    /\ response' = NoResponse
    /\ UNCHANGED <<now, audioDir, reference, statusFile, pending, tasks, pc,
                   audio_files, sameDirRuns, raised, nUploads, nStored>>

Pipeline ==
    \/ Tick
    \/ \E body \in Bodies : UploadBegin(body)
    \/ \E u \in BagToSet(pending), pos \in 1..(Len(audioDir) + 1) :
          UploadFinish(u, pos)
    \/ DelayedTrain
    \/ TrainCall
    \/ TrainingWritten
    \/ Concatenate
    \/ Exported
    \/ TrainReady
    \/ ReadyWritten
    \/ TrainError
    \/ ErrorWritten
    \/ \E i \in 1..Len(audioDir) : ClipDamaged(i)
    \/ StatusDamaged

(* The pipeline, its upload trigger and the status reads *)
Next ==
    \/ Respond
    \/ Pipeline
    \/ GetStatus

Spec == Init /\ [][Next]_vars

(* The synthesize handler beside the pipeline runs that one upload and    *)
(* direct calls of train() give.                                           *)
NextSynth ==
    \/ Respond
    \/ \E body \in Bodies : nUploads = 0 /\ UploadBegin(body)
    \/ \E u \in BagToSet(pending) : UploadFinish(u, Len(audioDir) + 1)
    \/ DelayedTrain
    \/ TrainCall
    \/ TrainingWritten
    \/ Concatenate
    \/ Exported
    \/ TrainReady
    \/ ReadyWritten
    \/ TrainError
    \/ ErrorWritten
    \/ \E text \in Texts, generated \in BOOLEAN : Synthesize(text, generated)

SpecSynth == Init /\ [][NextSynth]_vars

----------------------------------------------------------------------------
(* What the claims speak of *)

Min(a, b) == IF a < b THEN a ELSE b

RECURSIVE Flatten(_)
Flatten(pcms) ==
    IF pcms = <<>> THEN <<>> ELSE Head(pcms) \o Flatten(Tail(pcms))

(* the orders of the directory's files that follow their write times *)
ByCreation(dir) ==
    { p \in [1..Len(dir) -> 1..Len(dir)] :
        /\ \A i, j \in 1..Len(dir) : i # j => p[i] # p[j]
        /\ \A i, j \in 1..Len(dir) :
              i < j => dir[p[i]].mtime <= dir[p[j]].mtime }

(* the audio of the files that decode, joined in order p *)
Joined(dir, p) ==
    Flatten([i \in 1..Len(dir) |->
                IF dir[p[i]].ok THEN dir[p[i]].pcm ELSE <<>>])

(* ref is the end of full: the same segments, the first one cut short *)
IsTrailing(ref, full) ==
    /\ Len(ref) <= Len(full)
    /\ \A i \in 1..Len(ref) :
          LET f == full[Len(full) - Len(ref) + i]
          IN  /\ ref[i].src = f.src
              /\ ref[i].to = f.to
              /\ IF i = 1 THEN ref[i].from >= f.from ELSE ref[i].from = f.from

IsCapped(ref, full) ==
    /\ Duration(ref) = Min(Duration(full), 20000)
    /\ IsTrailing(ref, full)

AllDecode(dir) == \A i \in 1..Len(dir) : dir[i].ok

RunConcatenates == pc = "concat" /\ pc' # "concat"

(* C1: a run over a non-empty directory of decodable clips writes the      *)
(* trailing min(total, 20000) ms of the clips joined in write-time order,  *)
(* and the reference sample is never longer than 20000 ms.                 *)
C1_TrailingCap ==
    /\ [][ (RunConcatenates /\ audioDir # <<>> /\ AllDecode(audioDir))
           => /\ pc' = "export"
              /\ reference' # <<>>
              /\ \E p \in ByCreation(audioDir) :
                    IsCapped(reference'[1], Joined(audioDir, p)) ]_vars
    /\ [](reference # <<>> => Duration(reference[1]) <= 20000)

(* a run over two clips has cut into the older one *)
C1_Witness ==
    /\ pc = "ready"
    /\ Len(audio_files) = 2
    /\ AllDecode(audio_files)
    /\ Duration(Flatten(<<audio_files[1].pcm, audio_files[2].pcm>>)) > 20000
    /\ Len(reference[1]) = 2
    /\ reference[1][1].from > 0
    /\ Duration(reference[1]) = 20000

(* C2 as stated: a run over exactly one clip writes that clip's audio      *)
(* unchanged, whatever its duration.                                       *)
C2_Original ==
    [][ (RunConcatenates /\ Len(audioDir) = 1 /\ pc' = "export")
        => reference' = << audioDir[1].pcm >> ]_vars

(* C2 amended: a run over exactly one clip, which decodes, writes that     *)
(* clip's audio unchanged when the clip is at most 20000 ms long, and its  *)
(* trailing 20000 ms when it is longer.                                    *)
C2_SingleClip ==
    [][ (RunConcatenates /\ Len(audioDir) = 1 /\ audioDir[1].ok)
        => /\ pc' = "export"
           /\ LET clip == audioDir[1].pcm
              IN  IF Duration(clip) <= 20000
                  THEN reference' = << clip >>
                  ELSE /\ reference' # << clip >>
                       /\ reference' # <<>>
                       /\ IsCapped(reference'[1], clip) ]_vars

(* a run has copied a single short clip *)
C2_Witness ==
    /\ pc = "ready"
    /\ Len(audio_files) = 1
    /\ Duration(audio_files[1].pcm) > 0
    /\ Duration(audio_files[1].pcm) <= 20000
    /\ reference = << audio_files[1].pcm >>

Persisted(status, audio_count) ==
    /\ statusFile # <<>>
    /\ statusFile[1].parses
    /\ statusFile[1].data.status = status
    /\ statusFile[1].data.audio_count = audio_count

(* C3: a run started with no clip writes "training" with audio_count 0,    *)
(* then fails without writing a reference sample, writes "error" with      *)
(* audio_count 0 and propagates the failure.                               *)
C3_NoClips ==
    /\ [][ (pc = "idle" /\ pc' # "idle" /\ audioDir = <<>>)
           => pc' = "write_training" /\ Persisted("training", 0)' ]_vars
    /\ [][ (RunConcatenates /\ audioDir = <<>>)
           => pc' = "except" /\ reference' = reference ]_vars
    /\ [][ (pc = "except" /\ pc' # "except" /\ audioDir = <<>>)
           => pc' = "write_error" /\ Persisted("error", 0)' ]_vars
    /\ [][ (pc = "write_error" /\ pc' # "write_error")
           => pc' = "idle" /\ raised' /\ statusFile' = statusFile ]_vars
    /\ [](audioDir = <<>> => reference = <<>>)

(* a run over no clip has ended *)
C3_Witness ==
    /\ pc = "idle"
    /\ raised
    /\ audioDir = <<>>
    /\ Persisted("error", 0)
    /\ reference = <<>>

OneFailsOneDecodes(dir) ==
    \E i, j \in 1..Len(dir) : i # j /\ ~dir[i].ok /\ dir[j].ok

(* C4: a clip that fails to decode is left out and the others are joined   *)
(* in order; with at least one other clip decoding the run writes the      *)
(* reference sample and ends with status "ready".                          *)
C4_SkipsUndecodable ==
    /\ [][ (RunConcatenates /\ OneFailsOneDecodes(audioDir))
           => /\ pc' = "export"
              /\ reference' # <<>>
              /\ \E p \in ByCreation(audioDir) :
                    IsCapped(reference'[1], Joined(audioDir, p)) ]_vars
    /\ [][ (pc = "ready" /\ pc' # "ready")
           => pc' = "write_ready" /\ statusFile' # <<>>
              /\ statusFile'[1].parses
              /\ statusFile'[1].data.status = "ready" ]_vars
    /\ [][ (pc = "write_ready" /\ pc' # "write_ready")
           => pc' = "idle" /\ ~raised' /\ statusFile' = statusFile ]_vars

(* a run has skipped an older clip and kept the one after it *)
C4_Witness ==
    /\ pc = "idle"
    /\ ~raised
    /\ statusFile # <<>> /\ statusFile[1].parses
    /\ statusFile[1].data.status = "ready"
    /\ sameDirRuns >= 1
    /\ Len(audioDir) >= 2
    /\ \E i, j \in 1..Len(audioDir) :
          /\ audioDir[i].mtime < audioDir[j].mtime
          /\ ~audioDir[i].ok
          /\ audioDir[j].ok
          /\ reference # <<>>
          /\ reference[1] # <<>>
          /\ IsTrailing(reference[1], audioDir[j].pcm)

Quiescent == pending = EmptyBag /\ tasks = 0 /\ pc = "idle"

(* C5: once N >= 1 uploads with distinct timestamps have succeeded, the    *)
(* clips decode and no upload or run is outstanding, the status is         *)
(* {ready, N} and the reference sample is the capped join of all N clips.  *)
C5_Settled ==
    (/\ Quiescent
     /\ nStored >= 1
     /\ Len(audioDir) = nStored
     /\ AllDecode(audioDir)
     /\ (statusFile = <<>> \/ statusFile[1].parses))
    => /\ Persisted("ready", nStored)
       /\ reference # <<>>
       /\ \E p \in ByCreation(audioDir) :
             IsCapped(reference[1], Joined(audioDir, p))

(* two uploads have settled into one untruncated reference sample *)
C5_Witness ==
    /\ Quiescent
    /\ nStored = 2
    /\ Len(audioDir) = 2
    /\ AllDecode(audioDir)
    /\ audioDir[1].mtime # audioDir[2].mtime
    /\ Persisted("ready", 2)
    /\ reference # <<>>
    /\ Len(reference[1]) = 2
    /\ Duration(reference[1]) = Duration(audioDir[1].pcm)
                                + Duration(audioDir[2].pcm)

Unparsable == statusFile # <<>> /\ ~statusFile[1].parses

IsDefaultAnswer ==
    /\ response.code = 200
    /\ response.status = "idle"
    /\ response.audio_count = Len(audioDir)
    /\ response.last_trained = -1

(* C6 as stated: a status read always answers, and takes an unparsable     *)
(* status record for an absent one, answering the synthesized default.     *)
C6_Original ==
    response.req = "status"
    => /\ response.code = 200
       /\ Unparsable => IsDefaultAnswer

(* C6 amended: a status read answers the synthesized default when the      *)
(* status record is absent and the record when it parses; when the record  *)
(* is unparsable the read fails with status code 500.                      *)
C6_Unparsable ==
    response.req = "status"
    => IF Unparsable THEN response.code = 500
       ELSE /\ response.code = 200
            /\ statusFile = <<>> => IsDefaultAnswer
            /\ statusFile # <<>>
                  => /\ response.status = statusFile[1].data.status
                     /\ response.audio_count = statusFile[1].data.audio_count

(* a status read has met an unparsable record *)
C6_Witness ==
    /\ response.req = "status"
    /\ response.code = 500
    /\ Unparsable
    /\ audioDir # <<>>

(* C7: before the first status write a read returns {idle, N, null, null}  *)
(* for the N clips on disk; once a status is written the file stays and no *)
(* read returns "idle" or a null last_trained.                             *)
C7_IdleUntilFirstWrite ==
    /\ [](LET read == TrainerGetStatus(statusFile, audioDir)
          IN  IF statusFile = <<>>
              THEN /\ read = << [status |-> "idle",
                                 audio_count |-> Len(audioDir),
                                 last_trained |-> -1,
                                 model_path |-> "null"] >>
                   /\ response.req = "status" => IsDefaultAnswer
              ELSE /\ \A i \in 1..Len(read) :
                         read[i].status # "idle" /\ read[i].last_trained # -1
                   /\ (response.req = "status" /\ response.code = 200)
                         => /\ response.status # "idle"
                            /\ response.last_trained # -1)
    /\ [][statusFile # <<>> => statusFile' # <<>>]_vars

(* a status read has counted two clips before any status write *)
C7_Witness ==
    /\ statusFile = <<>>
    /\ response.req = "status"
    /\ response.code = 200
    /\ response.status = "idle"
    /\ response.audio_count = 2
    /\ response.last_trained = -1

C9_NoReference ==
    (response.req = "synthesize" /\ reference = <<>>)
    => response.code = 400 /\ ~response.adapter

(* a request with a valid text was refused for want of a reference *)
C9_Witness ==
    /\ response.req = "synthesize"
    /\ reference = <<>>
    /\ audioDir # <<>>
    /\ response.text = [lead |-> 0, core |-> 1, trail |-> 0]
    /\ response.code = 400
    /\ ~response.adapter

(* C10 as stated: with a reference sample the adapter is reached exactly   *)
(* when the trimmed text has 1 to 500 characters.                          *)
C10_Original ==
    (response.req = "synthesize" /\ reference # <<>>)
    => /\ response.adapter
          <=> (response.text.core >= 1 /\ response.text.core <= 500)
       /\ ~response.adapter => response.code = 400

(* C10 amended: with a reference sample the adapter is reached exactly     *)
(* when the trimmed text is not empty and the text as sent, untrimmed, has *)
(* at most 500 characters; every other text is answered 400.               *)
C10_TextLength ==
    (response.req = "synthesize" /\ reference # <<>>)
    => /\ response.adapter
          <=> /\ response.text.core >= 1
              /\ response.text.lead + response.text.core
                   + response.text.trail <= 500
       /\ ~response.adapter => response.code = 400

(* 499 characters between two blanks were refused *)
C10_Witness ==
    /\ response.req = "synthesize"
    /\ reference # <<>>
    /\ response.text = [lead |-> 1, core |-> 499, trail |-> 1]
    /\ response.code = 400
    /\ ~response.adapter

(* C11: under every interleaving of runs and synthesize requests the       *)
(* adapter finds reference.wav whole, never part-written and never         *)
(* missing; a run in the middle of its export lets no request in, and a    *)
(* sample once written is never taken away.                                *)
C11_AtomicReplace ==
    /\ []((response.req = "synthesize" /\ response.adapter)
             => response.read = "whole")
    /\ [](pc = "export" => Answered)
    /\ [][reference # <<>> => reference' # <<>>]_vars

(* the adapter has read the sample between the run that wrote it and the   *)
(* run a sleeping task is about to start                                   *)
C11_Witness ==
    /\ response.req = "synthesize"
    /\ response.adapter
    /\ response.read = "whole"
    /\ tasks = 1
    /\ sameDirRuns >= 1
    /\ reference # <<>>

(* the records update_status can have written by now *)
CompleteRecords ==
    [status : {"training", "ready", "error"},
     audio_count : 0..Len(audioDir),
     last_trained : 0..now,
     model_path : {"null", "data/model/reference.wav"}]

(* C12: the runs that concurrent uploads trigger never leave the status    *)
(* record unparsable: what the pipeline has persisted is one complete      *)
(* record, no request is served while a write of it is under way, and a    *)
(* status read returns the record of the latest write.                     *)
C12_WholeRecord ==
    /\ (statusFile # <<>> /\ ~Unparsable)
          => statusFile[1].data \in CompleteRecords
    /\ StatusTorn(pc) => Answered
    /\ (response.req = "status" /\ ~Unparsable)
          => /\ response.code = 200
             /\ statusFile # <<>>
                   => /\ response.status = statusFile[1].data.status
                      /\ response.audio_count = statusFile[1].data.audio_count
                      /\ response.last_trained
                            = statusFile[1].data.last_trained

(* a status read between the two runs that two uploads have triggered *)
C12_Witness ==
    /\ response.req = "status"
    /\ response.code = 200
    /\ response.status = "ready"
    /\ response.audio_count = 2
    /\ nStored = 2
    /\ pending = EmptyBag
    /\ tasks = 1

(* C13: each upload answered "success" has added one clip of its own: n    *)
(* successful uploads leave n clips with n different filenames; the clip   *)
(* is in the directory before the run it triggers starts, and the answer   *)
(* is returned while that run is still to come.                            *)
C13_OneClipPerUpload ==
    /\ Len(audioDir) = nStored
    /\ \A i, j \in 1..Len(audioDir) :
          i # j => audioDir[i].name # audioDir[j].name
    /\ tasks <= nStored
    /\ tasks >= 1 => audioDir # <<>>
    /\ (response.req = "upload" /\ response.code = 200)
          => /\ tasks >= 1
             /\ pc = "idle"
             /\ response.audio_count = Len(audioDir)

(* C14: an upload whose bytes do not decode is answered 500 and changes    *)
(* neither the clips nor the reference sample nor the status record, and   *)
(* schedules no run.                                                       *)
C14_FailedUpload ==
    [][ \A u \in BagToSet(pending) :
          (u.body = 0 /\ pending' = pending (-) SetToBag({u}))
          => /\ response' = [req |-> "upload", code |-> 500]
             /\ audioDir' = audioDir
             /\ reference' = reference
             /\ statusFile' = statusFile
             /\ tasks' = tasks
             /\ pc' = pc
             /\ nStored' = nStored ]_vars

(* an upload has failed beside the settled result of an earlier one *)
C14_Witness ==
    /\ response = [req |-> "upload", code |-> 500]
    /\ nUploads = 2
    /\ nStored = 1
    /\ Len(audioDir) = 1
    /\ reference = << audioDir[1].pcm >>
    /\ Persisted("ready", 1)
    /\ Quiescent

(* the status a run writes on reaching position at *)
StatusAt(at) ==
    IF at = "write_training" THEN "training"
    ELSE IF at = "write_ready" THEN "ready"
    ELSE "error"

(* C15: every update_status call, whatever the status, replaces the whole  *)
(* record: the status and count it was given, the time of the call as      *)
(* last_trained, never null, and as model_path the reference path when     *)
(* reference.wav exists at the call and null when it does not.             *)
C15_WholeOverwrite ==
    [][ (~StatusTorn(pc) /\ StatusTorn(pc'))
        => /\ now # -1
           /\ statusFile' =
                << [parses |-> TRUE,
                    data |-> [status |-> StatusAt(pc'),
                              audio_count |-> Len(audioDir),
                              last_trained |-> now,
                              model_path |->
                                 IF reference = <<>> THEN "null"
                                 ELSE "data/model/reference.wav"]] >> ]_vars

(* an "error" record is being written beside an existing reference sample *)
C15_Witness ==
    /\ pc = "write_error"
    /\ reference # <<>>
    /\ statusFile # <<>>
    /\ statusFile[1].data.status = "error"
    /\ statusFile[1].data.model_path = "data/model/reference.wav"
    /\ statusFile[1].data.last_trained = now
    /\ now > 0

(* the order of the statements of train *)
RunSteps ==
    { <<"idle", "write_training">>, <<"write_training", "concat">>,
      <<"concat", "export">>, <<"concat", "except">>,
      <<"export", "ready">>, <<"ready", "write_ready">>,
      <<"write_ready", "idle">>,
      <<"except", "write_error">>, <<"write_error", "idle">> }

(* C16: a run writes "training" before it touches the reference sample     *)
(* and ends with one more status write, its last: "ready" when             *)
(* concatenate_audio returned, "error", with the exception passed on, when *)
(* it raised; the count of that write is the number of clips at that       *)
(* moment, and outside a run the record never says "training".             *)
C16_RunStatusOrder ==
    /\ [][ pc' # pc => <<pc, pc'>> \in RunSteps ]_vars
    /\ [][ (statusFile' # statusFile /\ ~Unparsable')
           => ~StatusTorn(pc) /\ StatusTorn(pc') ]_vars
    /\ [][ reference' # reference => pc = "concat" ]_vars
    /\ [][ (pc = "write_ready" /\ pc' = "idle") => ~raised' ]_vars
    /\ [][ (pc = "write_error" /\ pc' = "idle") => raised' ]_vars
    /\ []((pc \in {"write_training", "concat"} /\ ~Unparsable)
             => Persisted("training", Len(audioDir)))
    /\ [](pc = "write_ready" => Persisted("ready", Len(audioDir)))
    /\ [](pc = "write_error" => Persisted("error", Len(audioDir)))
    /\ []((pc = "idle" /\ statusFile # <<>> /\ ~Unparsable)
             => statusFile[1].data.status \in {"ready", "error"})

(* a run over one clip that does not decode has ended in "error" *)
C16_Witness ==
    /\ pc = "idle"
    /\ raised
    /\ Len(audioDir) = 1
    /\ ~audioDir[1].ok
    /\ Persisted("error", 1)
    /\ reference = <<>>
    /\ tasks = 0

C18_RunsNeverOverlap ==
    /\ [][ pc # "idle"
           => /\ response' = response
              /\ pending' = pending
              /\ tasks' = tasks
              /\ nUploads' = nUploads
              /\ nStored' = nStored
              /\ audioDir' # audioDir => Len(audioDir') = Len(audioDir)
              /\ pc' # pc => <<pc, pc'>> \in RunSteps ]_vars
    /\ [](pc # "idle" => Answered)
    /\ []((response.req = "status" /\ response.code = 200)
             => response.status # "training")

(* a run is under way while a task sleeps and an upload waits for its body *)
C18_Witness ==
    /\ pc = "export"
    /\ tasks = 1
    /\ pending # EmptyBag
    /\ Persisted("training", 1)

(* C19: a persisted record with status "ready" names the model path and    *)
(* reference.wav exists beside it; so whenever a status read has returned  *)
(* "ready", a synthesize request with a valid text passes the check for    *)
(* the reference sample.                                                   *)
C19_ReadyHasReference ==
    /\ (statusFile # <<>> /\ ~Unparsable
          /\ statusFile[1].data.status = "ready")
          => /\ statusFile[1].data.model_path = "data/model/reference.wav"
             /\ reference # <<>>
             /\ Precondition(reference, Text(0, 1, 0)) = 0
    /\ (response.req = "status" /\ response.code = 200
          /\ response.status = "ready")
          => /\ reference # <<>>
             /\ \A text \in Texts :
                   (text.core >= 1 /\ StrLen(text) <= 500)
                   => Precondition(reference, text) = 0

(* a status read has returned "ready" for one clip *)
C19_Witness ==
    /\ response.req = "status"
    /\ response.code = 200
    /\ response.status = "ready"
    /\ response.audio_count = 1
    /\ statusFile[1].data.model_path = "data/model/reference.wav"
    /\ reference # <<>>
    /\ Duration(reference[1]) > 0

NoneDecodes(dir) == \A i \in 1..Len(dir) : ~dir[i].ok

(* C20: a run ends in "ready" only when at least one clip was decoded: a   *)
(* run over clips that all fail to decode, be it one or several, ends in   *)
(* "error", and a "ready" record never stands beside a reference sample    *)
(* of 0 ms.                                                                *)
C20_ReadyNeedsAudio ==
    /\ [][ (RunConcatenates /\ audioDir # <<>> /\ NoneDecodes(audioDir))
           => pc' = "except" /\ reference' = reference ]_vars
    /\ []((\E n \in 0..Len(audioDir) : Persisted("ready", n))
             => reference # <<>> /\ Duration(reference[1]) > 0)

====
